---- MODULE Spec2Model ----
(***************************************************************************)
(* A model of pathfinder's StarkNet contract-hash engine                   *)
(* (crates/pathfinder/src/state/contract_hash.rs).                         *)
(*                                                                         *)
(* Bytes of a JSON document are a TLA+ string, one character per byte.     *)
(* A StarkHash is its 32 big-endian bytes.  pedersen_hash is a collision-  *)
(* free binary primitive: the pair <<a, b>> stands for H(a, b), so a       *)
(* StarkHash is either a 32-byte sequence or such a pair.                  *)
(***************************************************************************)
EXTENDS Integers, Sequences, FiniteSets, TLC

VARIABLES
    input,      \* contract_definition_dump: the bytes handed to compute_contract_hash
    pc,         \* position inside compute_contract_hash / compute_contract_hash0
    def,        \* the deserialized json::ContractDefinition
    keccak,     \* the bytes absorbed by the KeccakWriter
    tk,         \* truncated_keccak, the masked digest as a StarkHash
    outer,      \* the outer HashChain
    inner,      \* the HashChain of the list being folded
    kind,       \* index into [External, L1Handler, Constructor]
    idx,        \* index of the element of the current list
    fld,        \* 1 = selector, 2 = offset
    result,     \* Result<ContractHash> of the call
    prev,       \* caller: input and result of its earlier call
    mode,       \* caller: where the current input came from
    hc,         \* a HashChain driven directly (update / finalize)
    calls,      \* the values passed to hc.update since HashChain::default()
    fin,        \* what hc.finalize() returned
    abi,        \* extract_abi_code_hash: the abi as json bytes
    code,       \* extract_abi_code_hash: program.data as json bytes
    digest,     \* the 32 bytes handed to truncated_keccak
    truncated,  \* what truncated_keccak made of them
    filter,     \* get_logs: the filter of the call
    lpc,        \* get_logs: position inside the loop
    response,   \* get_logs: what transport.eth().logs(..) answered
    queries,    \* get_logs: the queries sent so far, counted up to MaxQueries
    logs        \* get_logs: what the call returned

vars == <<input, pc, def, keccak, tk, outer, inner, kind, idx, fld, result,
          prev, mode, hc, calls, fin, abi, code, digest, truncated,
          filter, lpc, response, queries, logs>>

callVars == <<input, pc, def, keccak, tk, outer, inner, kind, idx, fld, result>>
callerVars == <<prev, mode>>
chainVars == <<hc, calls, fin>>
extractVars == <<abi, code>>
digestVars == <<digest, truncated>>
logVars == <<filter, lpc, response, queries, logs>>
restVars == <<extractVars, digestVars, logVars>>

(***************************************************************************)
(* Bytes and characters                                                    *)
(***************************************************************************)

\* Printable ASCII in code order: 0x20..0x5f, and 0x61..0x7e.
AsciiLow == " !\"#$%&'()*+,-./0123456789:;<=>?@ABCDEFGHIJKLMNOPQRSTUVWXYZ[\\]^_"
AsciiHigh == "abcdefghijklmnopqrstuvwxyz{|}~"

CodeOf ==
    [c \in {SubSeq(AsciiLow, i, i) : i \in 1..Len(AsciiLow)}
            \cup {SubSeq(AsciiHigh, i, i) : i \in 1..Len(AsciiHigh)} |->
        IF \E i \in 1..Len(AsciiLow) : SubSeq(AsciiLow, i, i) = c
        THEN 31 + (CHOOSE i \in 1..Len(AsciiLow) : SubSeq(AsciiLow, i, i) = c)
        ELSE 96 + (CHOOSE i \in 1..Len(AsciiHigh) : SubSeq(AsciiHigh, i, i) = c)]

\* The byte at position i of s, as a one-character string; "" past the end.
At(s, i) == IF i >= 1 /\ i <= Len(s) THEN SubSeq(s, i, i) ELSE ""

\* s.as_bytes()
as_bytes(s) == [i \in 1..Len(s) |-> CodeOf[At(s, i)]]

\* str::strip_prefix: the remainder after p, or no remainder.
HasPrefix(s, p) == Len(s) >= Len(p) /\ SubSeq(s, 1, Len(p)) = p
StripPrefix(s, p) == SubSeq(s, Len(p) + 1, Len(s))

(***************************************************************************)
(* StarkHash: the field element of the pedersen crate                      *)
(***************************************************************************)

\* A StarkHash is [u8; 32], big-endian.
FeltLen == 32

\* usize::to_be_bytes() yields 8 bytes.
UsizeLen == 8

\* StarkHash::ZERO
ZERO == [i \in 1..FeltLen |-> 0]

\* The field modulus 2^251 + 17 * 2^192 + 1 as big-endian bytes.
Modulus == [i \in 1..FeltLen |-> CASE i = 1 -> 8 [] i = 8 -> 17 [] i = FeltLen -> 1 [] OTHER -> 0]

\* a < b for byte sequences of equal length read as big-endian integers.
RECURSIVE BytesLessFrom(_, _, _)
BytesLessFrom(a, b, i) ==
    IF i > Len(a) THEN FALSE
    ELSE IF a[i] # b[i] THEN a[i] < b[i]
    ELSE BytesLessFrom(a, b, i + 1)

BytesLess(a, b) == BytesLessFrom(a, b, 1)

Ok(v) == [ok |-> TRUE, val |-> v]
Err(v) == [ok |-> FALSE, val |-> v]

\* StarkHash::from_be_bytes: the 32 bytes must be below the modulus.
from_be_bytes(bytes) ==
    IF BytesLess(bytes, Modulus) THEN Ok(bytes) ELSE Err("overflow")

\* StarkHash::from_be_slice: at most 32 bytes, left-padded with zeros.
from_be_slice(bytes) ==
    IF Len(bytes) > FeltLen THEN Err("overflow")
    ELSE from_be_bytes([i \in 1..FeltLen |->
            IF i <= FeltLen - Len(bytes) THEN 0 ELSE bytes[i - (FeltLen - Len(bytes))]])

\* The value of a hex digit of either case, -1 for any other byte.
HexDigit(c) ==
    LET n == CodeOf[c] IN
    CASE n >= 48 /\ n <= 57 -> n - 48
      [] n >= 65 /\ n <= 70 -> n - 55
      [] n >= 97 /\ n <= 102 -> n - 87
      [] OTHER -> -1

\* StarkHash::from_hex_str: an optional "0x", then at most 64 hex digits.
from_hex_str(hex_str) ==
    LET hex == IF HasPrefix(hex_str, "0x") THEN StripPrefix(hex_str, "0x") ELSE hex_str
        n == Len(hex)
        nib(j) == IF j <= 2 * FeltLen - n THEN 0 ELSE HexDigit(At(hex, j - (2 * FeltLen - n)))
    IN  IF n > 2 * FeltLen THEN Err("invalid length")
        ELSE IF \E j \in 1..n : HexDigit(At(hex, j)) < 0 THEN Err("invalid nibble")
        ELSE from_be_bytes([i \in 1..FeltLen |-> 16 * nib(2 * i - 1) + nib(2 * i)])

\* pedersen_hash(a, b): the pair stands for the hash of a and b.
pedersen_hash(a, b) == <<a, b>>

\* Whether a StarkHash is the output of pedersen_hash.
IsPedersen(h) == Len(h) = 2

(***************************************************************************)
(* HashChain                                                               *)
(***************************************************************************)

\* impl Default for HashChain
HashChain_default == [hash |-> ZERO, count |-> 0]

\* count.to_be_bytes(): eight big-endian bytes (counts of the model stay below 2^24).
to_be_bytes(count) ==
    [i \in 1..UsizeLen |->
        IF UsizeLen - i >= 3 THEN 0
        ELSE (count \div (IF i = UsizeLen THEN 1 ELSE IF i = UsizeLen - 1 THEN 256 ELSE 65536)) % 256]

\* HashChain::update with the count left as it was.
HashChain_update_uncounted(self, value) ==
    [hash |-> pedersen_hash(self.hash, value), count |-> self.count]

\* HashChain::update
HashChain_update(self, value) ==
    [hash |-> pedersen_hash(self.hash, value), count |-> self.count + 1]

\* HashChain::finalize
HashChain_finalize(self) ==
    pedersen_hash(self.hash, from_be_slice(to_be_bytes(self.count)).val)


(***************************************************************************)
(* serde_json: reading a document                                          *)
(*                                                                         *)
(* Documents of the model hold objects, arrays, strings without escapes,   *)
(* integers, true, false and null, separated by spaces.                    *)
(***************************************************************************)

\* A node of the document as read: its kind, its text (string and number),
\* its parts in the order of the text (array elements, object members; a
\* member holds its key as text and its value as its one part), and the
\* bytes it spans.
Node(t, s, items, from, to) == [t |-> t, s |-> s, items |-> items, from |-> from, to |-> to]

Fail(i) == [ok |-> FALSE, val |-> Node("none", "", <<>>, i, i), pos |-> i]
Done(v, i) == [ok |-> TRUE, val |-> v, pos |-> i]

RECURSIVE SkipWs(_, _)
SkipWs(s, i) == IF At(s, i) = " " THEN SkipWs(s, i + 1) ELSE i

\* The position of the next double quote at or after i, 0 when there is none.
RECURSIVE FindQuote(_, _)
FindQuote(s, i) ==
    IF i > Len(s) THEN 0
    ELSE IF At(s, i) = "\"" THEN i
    ELSE FindQuote(s, i + 1)

IsDigit(c) == c # "" /\ CodeOf[c] >= 48 /\ CodeOf[c] <= 57

RECURSIVE DigitsEnd(_, _)
DigitsEnd(s, i) == IF IsDigit(At(s, i)) THEN DigitsEnd(s, i + 1) ELSE i

ParseString(s, i) ==
    LET j == FindQuote(s, i + 1) IN
    IF At(s, i) # "\"" \/ j = 0 THEN Fail(i)
    ELSE Done(Node("str", SubSeq(s, i + 1, j - 1), <<>>, i, j + 1), j + 1)

\* An integer: an optional minus, then 0 or a digit string without a leading 0.
ParseNumber(s, i) ==
    LET d == IF At(s, i) = "-" THEN i + 1 ELSE i
        e == DigitsEnd(s, d)
    IN  IF e = d \/ (At(s, d) = "0" /\ e > d + 1) THEN Fail(i)
        ELSE Done(Node("num", SubSeq(s, i, e - 1), <<>>, i, e), e)

ParseLiteral(s, i, word, t) ==
    IF i + Len(word) - 1 <= Len(s) /\ SubSeq(s, i, i + Len(word) - 1) = word
    THEN Done(Node(t, word, <<>>, i, i + Len(word)), i + Len(word))
    ELSE Fail(i)

RECURSIVE ParseValue(_, _), ParseElements(_, _, _, _), ParseMembers(_, _, _, _)

\* One value starting at byte i (no leading space).
ParseValue(s, i) ==
    LET c == At(s, i) IN
    CASE c = "{" ->
            LET j == SkipWs(s, i + 1) IN
            IF At(s, j) = "}" THEN Done(Node("obj", "", <<>>, i, j + 1), j + 1)
            ELSE ParseMembers(s, j, <<>>, i)
      [] c = "[" ->
            LET j == SkipWs(s, i + 1) IN
            IF At(s, j) = "]" THEN Done(Node("arr", "", <<>>, i, j + 1), j + 1)
            ELSE ParseElements(s, j, <<>>, i)
      [] c = "\"" -> ParseString(s, i)
      [] c = "n" -> ParseLiteral(s, i, "null", "null")
      [] c = "t" -> ParseLiteral(s, i, "true", "bool")
      [] c = "f" -> ParseLiteral(s, i, "false", "bool")
      [] c = "-" \/ IsDigit(c) -> ParseNumber(s, i)
      [] OTHER -> Fail(i)

\* The elements of an array from byte i on, acc the ones read so far.
ParseElements(s, i, acc, from) ==
    LET v == ParseValue(s, i)
        j == SkipWs(s, v.pos)
    IN  IF ~v.ok THEN Fail(i)
        ELSE IF At(s, j) = "," THEN ParseElements(s, SkipWs(s, j + 1), Append(acc, v.val), from)
        ELSE IF At(s, j) = "]" THEN Done(Node("arr", "", Append(acc, v.val), from, j + 1), j + 1)
        ELSE Fail(j)

\* The members of an object from byte i on, acc the ones read so far.
ParseMembers(s, i, acc, from) ==
    LET k == ParseString(s, i)
        c == SkipWs(s, k.pos)
        v == ParseValue(s, SkipWs(s, c + 1))
        j == SkipWs(s, v.pos)
        m == Node("mem", k.val.s, <<v.val>>, i, v.pos)
    IN  IF ~k.ok \/ At(s, c) # ":" THEN Fail(i)
        ELSE IF ~v.ok THEN Fail(c)
        ELSE IF At(s, j) = "," THEN ParseMembers(s, SkipWs(s, j + 1), Append(acc, m), from)
        ELSE IF At(s, j) = "}" THEN Done(Node("obj", "", Append(acc, m), from, j + 1), j + 1)
        ELSE Fail(j)

\* serde_json::from_slice up to the typed visitor: one value, then only spaces.
ParseDocument(s) ==
    LET v == ParseValue(s, SkipWs(s, 1)) IN
    IF v.ok /\ SkipWs(s, v.pos) = Len(s) + 1 THEN v ELSE Fail(v.pos)


(***************************************************************************)
(* serde_json::Value and the maps of the document                          *)
(***************************************************************************)

\* a < b as byte strings (the order of String keys in a BTreeMap).
RECURSIVE StrLessFrom(_, _, _)
StrLessFrom(a, b, i) ==
    IF i > Len(a) THEN i <= Len(b)
    ELSE IF i > Len(b) THEN FALSE
    ELSE IF At(a, i) # At(b, i) THEN CodeOf[At(a, i)] < CodeOf[At(b, i)]
    ELSE StrLessFrom(a, b, i + 1)

StrLess(a, b) == StrLessFrom(a, b, 1)

\* The members kept in the order of their insertion (serde_json's preserve_order).
ValueMapInsert_appended(acc, m) == SelectSeq(acc, LAMBDA x : x.s # m.s) \o <<m>>

\* BTreeMap<String, Value>::insert on the sorted members acc: an equal key is replaced.
ValueMapInsert(acc, m) ==
    SelectSeq(acc, LAMBDA x : StrLess(x.s, m.s)) \o <<m>> \o
    SelectSeq(acc, LAMBDA x : StrLess(m.s, x.s))

\* The entries kept in the order of their insertion, as an order-preserving map would.
HintsInsert_appended(acc, e) == SelectSeq(acc, LAMBDA x : x.k # e.k) \o <<e>>

\* BTreeMap<u64, Vec<Value>>::insert on the sorted entries acc.
HintsInsert(acc, e) ==
    SelectSeq(acc, LAMBDA x : x.k < e.k) \o <<e>> \o SelectSeq(acc, LAMBDA x : e.k < x.k)

Value(t, s, items) == [t |-> t, s |-> s, items |-> items]

RECURSIVE ToValue(_), ToValueMembers(_, _, _)

\* The serde_json::Value of a node: without preserve_order an object is a
\* BTreeMap, its members sorted by key, a repeated key keeping its last value.
ToValue(n) ==
    CASE n.t = "obj" -> Value("obj", "", ToValueMembers(n.items, 1, <<>>))
      [] n.t = "arr" -> Value("arr", "", [i \in 1..Len(n.items) |-> ToValue(n.items[i])])
      [] OTHER -> Value(n.t, n.s, <<>>)

ToValueMembers(ms, i, acc) ==
    IF i > Len(ms) THEN acc
    ELSE ToValueMembers(ms, i + 1,
            ValueMapInsert(acc, Value("mem", ms[i].s, <<ToValue(ms[i].items[1])>>)))

(***************************************************************************)
(* mod json: the derived Deserialize of the contract definition            *)
(***************************************************************************)

Keys(n) == {n.items[i].s : i \in 1..Len(n.items)}
Has(n, key) == key \in Keys(n)
Field(n, key) == n.items[CHOOSE i \in 1..Len(n.items) : n.items[i].s = key].items[1]

\* A struct with deny_unknown_fields: an object whose keys are all fields,
\* none twice, with every field that has no default.
IsStruct(n, fields, required) ==
    /\ n.t = "obj"
    /\ \A i \in 1..Len(n.items) : n.items[i].s \in fields
    /\ \A i, j \in 1..Len(n.items) : i # j => n.items[i].s # n.items[j].s
    /\ required \subseteq Keys(n)

IsVecOf(n, t) == n.t = "arr" /\ \A i \in 1..Len(n.items) : n.items[i].t = t
VecStr(n) == [i \in 1..Len(n.items) |-> n.items[i].s]
VecValue(n) == [i \in 1..Len(n.items) |-> ToValue(n.items[i])]

\* json::EntryPointType in the order compute_contract_hash0 walks it,
\* each under its serde rename.
EntryPointType == <<"EXTERNAL", "L1_HANDLER", "CONSTRUCTOR">>
External == 1
L1Handler == 2
Constructor == 3

\* json::SelectorAndOffset
IsSelectorAndOffset(n) ==
    /\ IsStruct(n, {"selector", "offset"}, {"selector", "offset"})
    /\ Field(n, "selector").t = "str"
    /\ Field(n, "offset").t = "str"

SelectorAndOffset(n) ==
    [selector |-> Field(n, "selector").s, offset |-> Field(n, "offset").s]

\* HashMap<EntryPointType, Vec<SelectorAndOffset>>
IsEntryPoints(n) ==
    /\ n.t = "obj"
    /\ \A i \in 1..Len(n.items) :
        /\ \E k \in 1..Len(EntryPointType) : n.items[i].s = EntryPointType[k]
        /\ n.items[i].items[1].t = "arr"
        /\ \A j \in 1..Len(n.items[i].items[1].items) :
                IsSelectorAndOffset(n.items[i].items[1].items[j])

\* The map as one slot per kind: whether the key is there and, if so, its
\* list (a repeated key keeps its last list).
EntryPoints(n) ==
    [k \in 1..Len(EntryPointType) |->
        LET at == {i \in 1..Len(n.items) : n.items[i].s = EntryPointType[k]} IN
        IF at = {} THEN [present |-> FALSE, list |-> <<>>]
        ELSE LET last == CHOOSE i \in at : \A j \in at : j <= i
                 l == n.items[last].items[1].items
             IN  [present |-> TRUE, list |-> [j \in 1..Len(l) |-> SelectorAndOffset(l[j])]]]

\* A u64 map key: decimal digits without a leading zero (the model reads
\* keys of at most nine digits).
IsU64(s) ==
    /\ Len(s) >= 1 /\ Len(s) <= 9
    /\ \A i \in 1..Len(s) : IsDigit(At(s, i))
    /\ (Len(s) > 1 => At(s, 1) # "0")

RECURSIVE StrToNat(_, _)
StrToNat(s, n) == IF n = 0 THEN 0 ELSE 10 * StrToNat(s, n - 1) + (CodeOf[At(s, n)] - 48)

RECURSIVE NatToStr(_)
NatToStr(n) ==
    IF n < 10 THEN At("0123456789", n + 1)
    ELSE NatToStr(n \div 10) \o At("0123456789", (n % 10) + 1)

\* BTreeMap<u64, Vec<serde_json::Value>>
IsHints(n) ==
    /\ n.t = "obj"
    /\ \A i \in 1..Len(n.items) : IsU64(n.items[i].s) /\ n.items[i].items[1].t = "arr"

RECURSIVE HintsFrom(_, _, _)
HintsFrom(ms, i, acc) ==
    IF i > Len(ms) THEN acc
    ELSE HintsFrom(ms, i + 1,
            HintsInsert(acc, [k |-> StrToNat(ms[i].s, Len(ms[i].s)), v |-> VecValue(ms[i].items[1])]))

Hints(n) == HintsFrom(n.items, 1, <<>>)

ProgramFields ==
    {"attributes", "builtins", "data", "debug_info", "hints", "identifiers",
     "main_scope", "prime", "reference_manager"}

\* json::Program: attributes has a default, debug_info is an Option.
IsProgram(n) ==
    /\ IsStruct(n, ProgramFields, ProgramFields \ {"attributes", "debug_info"})
    /\ (Has(n, "attributes") => Field(n, "attributes").t = "arr")
    /\ IsVecOf(Field(n, "builtins"), "str")
    /\ IsVecOf(Field(n, "data"), "str")
    /\ IsHints(Field(n, "hints"))
    /\ Field(n, "main_scope").t = "str"
    /\ Field(n, "prime").t = "str"

\* Option<&RawValue>: None ("") for a missing key and for null, else the
\* bytes of the value as they stand in the document s.
RawOption(s, n, key) ==
    IF ~Has(n, key) \/ Field(n, key).t = "null" THEN ""
    ELSE SubSeq(s, Field(n, key).from, Field(n, key).to - 1)

Program(s, n) ==
    [attributes |-> IF Has(n, "attributes") THEN VecValue(Field(n, "attributes")) ELSE <<>>,
     builtins |-> VecStr(Field(n, "builtins")),
     data |-> VecStr(Field(n, "data")),
     debug_info |-> RawOption(s, n, "debug_info"),
     hints |-> Hints(Field(n, "hints")),
     identifiers |-> ToValue(Field(n, "identifiers")),
     main_scope |-> Field(n, "main_scope").s,
     prime |-> Field(n, "prime").s,
     reference_manager |-> ToValue(Field(n, "reference_manager"))]

ContractDefinitionFields == {"abi", "program", "entry_points_by_type"}

\* json::ContractDefinition
IsContractDefinition(n) ==
    /\ IsStruct(n, ContractDefinitionFields, ContractDefinitionFields)
    /\ IsProgram(Field(n, "program"))
    /\ IsEntryPoints(Field(n, "entry_points_by_type"))

ContractDefinition(s, n) ==
    [abi |-> ToValue(Field(n, "abi")),
     program |-> Program(s, Field(n, "program")),
     entry_points_by_type |-> EntryPoints(Field(n, "entry_points_by_type"))]

NoDefinition == [abi |-> Value("null", "null", <<>>), program |-> <<>>, entry_points_by_type |-> <<>>]

\* serde_json::from_slice::<json::ContractDefinition>
from_slice(s) ==
    LET doc == ParseDocument(s) IN
    IF doc.ok /\ IsContractDefinition(doc.val)
    THEN Ok(ContractDefinition(s, doc.val))
    ELSE Err(NoDefinition)


(***************************************************************************)
(* Serialization                                                           *)
(***************************************************************************)

\* impl Formatter for PythonDefaultFormatter: what is written before every
\* array value and object key but the first, and before every object value.
PythonDefaultFormatter ==
    [begin_array_value |-> ", ", begin_object_key |-> ", ", begin_object_value |-> ": "]

\* serde_json's CompactFormatter, the one serde_json::to_vec writes with.
CompactFormatter ==
    [begin_array_value |-> ",", begin_object_key |-> ",", begin_object_value |-> ":"]

Quoted(s) == "\"" \o s \o "\""

\* The texts of parts, each but the first after sep.
RECURSIVE Joined(_, _, _)
Joined(parts, sep, n) ==
    IF n = 0 THEN ""
    ELSE IF n = 1 THEN parts[1]
    ELSE Joined(parts, sep, n - 1) \o sep \o parts[n]

SerArray(texts, f) == "[" \o Joined(texts, f.begin_array_value, Len(texts)) \o "]"

\* An object from its entries <<key text, value text>>.
SerObject(entries, f) ==
    "{" \o Joined([i \in 1..Len(entries) |->
                    entries[i][1] \o f.begin_object_value \o entries[i][2]],
                  f.begin_object_key, Len(entries)) \o "}"

RECURSIVE SerValue(_, _)

\* impl Serialize for serde_json::Value
SerValue(v, f) ==
    CASE v.t = "obj" ->
            SerObject([i \in 1..Len(v.items) |->
                        <<Quoted(v.items[i].s), SerValue(v.items[i].items[1], f)>>], f)
      [] v.t = "arr" -> SerArray([i \in 1..Len(v.items) |-> SerValue(v.items[i], f)], f)
      [] v.t = "str" -> Quoted(v.s)
      [] OTHER -> v.s

SerVecValue(l, f) == SerArray([i \in 1..Len(l) |-> SerValue(l[i], f)], f)
SerVecStr(l, f) == SerArray([i \in 1..Len(l) |-> Quoted(l[i])], f)

\* BTreeMap<u64, _>: the keys in ascending numeric order, written as strings.
SerHints(h, f) ==
    SerObject([i \in 1..Len(h) |-> <<Quoted(NatToStr(h[i].k)), SerVecValue(h[i].v, f)>>], f)

\* Option<&RawValue>: None is null, Some is the raw bytes.
SerRawOption(raw) == IF raw = "" THEN "null" ELSE raw

\* attributes written whatever its length.
SkipAttributes_never(p) == FALSE

\* #[serde(skip_serializing_if = "Vec::is_empty")] on Program::attributes
SkipAttributes(p) == p.attributes = <<>>

\* derive(Serialize) for json::Program: the fields in declaration order.
SerProgram(p, f) ==
    SerObject(
        (IF SkipAttributes(p) THEN <<>>
         ELSE << <<Quoted("attributes"), SerVecValue(p.attributes, f)>> >>) \o
        << <<Quoted("builtins"), SerVecStr(p.builtins, f)>>,
           <<Quoted("data"), SerVecStr(p.data, f)>>,
           <<Quoted("debug_info"), SerRawOption(p.debug_info)>>,
           <<Quoted("hints"), SerHints(p.hints, f)>>,
           <<Quoted("identifiers"), SerValue(p.identifiers, f)>>,
           <<Quoted("main_scope"), Quoted(p.main_scope)>>,
           <<Quoted("prime"), Quoted(p.prime)>>,
           <<Quoted("reference_manager"), SerValue(p.reference_manager, f)>> >>, f)

\* The entry points written as a map of lists of {selector, offset}.
SerEntryPoints(eps, f) ==
    SerObject(
        SelectSeq([k \in 1..Len(eps) |->
                    IF eps[k].present
                    THEN <<Quoted(EntryPointType[k]),
                           SerArray([j \in 1..Len(eps[k].list) |->
                                SerObject(<< <<Quoted("selector"), Quoted(eps[k].list[j].selector)>>,
                                             <<Quoted("offset"), Quoted(eps[k].list[j].offset)>> >>, f)], f)>>
                    ELSE <<"", "">>],
                  LAMBDA m : m[1] # ""), f)

\* The contract definition written with entry_points_by_type not skipped.
SerContractDefinition_with_entry_points(d, f) ==
    SerObject(<< <<Quoted("abi"), SerValue(d.abi, f)>>,
                 <<Quoted("program"), SerProgram(d.program, f)>>,
                 <<Quoted("entry_points_by_type"), SerEntryPoints(d.entry_points_by_type, f)>> >>, f)

\* derive(Serialize) for json::ContractDefinition: entry_points_by_type is
\* skip_serializing.
SerContractDefinition(d, f) ==
    SerObject(<< <<Quoted("abi"), SerValue(d.abi, f)>>,
                 <<Quoted("program"), SerProgram(d.program, f)>> >>, f)

(***************************************************************************)
(* Keccak256 and its truncation                                            *)
(***************************************************************************)

\* b^n modulo 251.
RECURSIVE PowMod(_, _)
PowMod(b, n) ==
    IF n = 0 THEN 1
    ELSE LET h == PowMod(b, n \div 2) IN
         (((h * h) % 251) * (IF n % 2 = 1 THEN b ELSE 1)) % 251

\* The bytes lo..hi of s as the digits of a number in base b, modulo 251.
RECURSIVE Poly(_, _, _, _)
Poly(s, lo, hi, b) ==
    IF lo > hi THEN 0
    ELSE IF lo = hi THEN CodeOf[At(s, lo)] % 251
    ELSE LET mid == (lo + hi) \div 2 IN
         (Poly(s, lo, mid, b) * PowMod(b, hi - mid) + Poly(s, mid + 1, hi, b)) % 251

\* sha3::Keccak256 as a stand-in digest of 32 bytes: Keccak itself is not
\* modelled, only that the digest is a function of the bytes absorbed.  Byte
\* i is the text read in one of four bases, after a leading digit.
Keccak256(s) ==
    LET lane(b) == (PowMod(b, Len(s)) * (b + Len(s)) + Poly(s, 1, Len(s), b)) % 251
        h == <<lane(31), lane(37), lane(41), lane(43)>>
    IN  [i \in 1..FeltLen |-> h[((i - 1) % 4) + 1]]

\* plain[0] &= 0x0f: a mask four bits wide.
MaskTop_wide(plain) == [plain EXCEPT ![1] = plain[1] % 16]

\* plain[0] &= 0x03
MaskTop(plain) == [plain EXCEPT ![1] = plain[1] % 4]

\* truncated_keccak
truncated_keccak(plain) == from_be_bytes(MaskTop(plain)).val


(***************************************************************************)
(* compute_contract_hash and compute_contract_hash0                        *)
(***************************************************************************)

NoHash == <<>>
NoError == [context |-> "", what |-> "", key |-> "", index |-> 0, field |-> ""]
NoResult == [ok |-> FALSE, hash |-> NoHash, err |-> NoError]

\* Ok(ContractHash(h))
OkHash(h) == [ok |-> TRUE, hash |-> h, err |-> NoError]

\* An anyhow error: the context of the failing stage, then what failed
\* under which key, at which index (counted from 0) and in which field.
Failed(context, what, key, index, field) ==
    [ok |-> FALSE, hash |-> NoHash,
     err |-> [context |-> context, what |-> what, key |-> key, index |-> index, field |-> field]]

\* const API_VERSION: StarkHash = StarkHash::ZERO
API_VERSION == ZERO

\* The kinds walked with the last two exchanged.
KindOrder_swapped == <<External, Constructor, L1Handler>>

\* [External, L1Handler, Constructor]
KindOrder == <<External, L1Handler, Constructor>>

\* entry_points_by_type.get(key).unwrap_or(&Vec::new())
EntryList(d, key) ==
    IF d.entry_points_by_type[key].present THEN d.entry_points_by_type[key].list ELSE <<>>

\* The two fields of an entry read the other way round.
FieldOf_swapped(x, f) == IF f = 1 THEN x.offset ELSE x.selector

\* [("selector", &*x.selector), ("offset", &*x.offset)]
FieldNames == <<"selector", "offset">>
FieldOf(x, f) == IF f = 1 THEN x.selector ELSE x.offset

\* debug_info left as deserialized.
NullDebugInfo_kept(d) == d

\* contract_definition.program.debug_info = None
NullDebugInfo(d) == [d EXCEPT !.program.debug_info = ""]

\* The formatter of the serializer that writes into the KeccakWriter.
KeccakFormatter == PythonDefaultFormatter

\* compute_contract_hash: deserialize the dump, or fail.
Parse ==
    /\ pc = "parse"
    /\ LET r == from_slice(input) IN
       IF r.ok
       THEN /\ def' = r.val
            /\ pc' = "serialize"
            /\ UNCHANGED result
       ELSE /\ result' = Failed("Failed to parse contract_definition", "", "", 0, "")
            /\ pc' = "done"
            /\ UNCHANGED def
    /\ UNCHANGED <<input, keccak, tk, outer, inner, kind, idx, fld>>
    /\ UNCHANGED callerVars /\ UNCHANGED chainVars /\ UNCHANGED restVars

\* Drop debug_info, serialize into the KeccakWriter, truncate the digest.
Serialize ==
    /\ pc = "serialize"
    /\ def' = NullDebugInfo(def)
    /\ keccak' = SerContractDefinition(def', KeccakFormatter)
    /\ tk' = truncated_keccak(Keccak256(keccak'))
    /\ pc' = "api"
    /\ UNCHANGED <<input, outer, inner, kind, idx, fld, result>>
    /\ UNCHANGED callerVars /\ UNCHANGED chainVars /\ UNCHANGED restVars

\* The outer chain started without the update by API_VERSION.
ApiVersion_skipped ==
    /\ pc = "api"
    /\ outer' = HashChain_default
    /\ inner' = HashChain_default
    /\ kind' = 1 /\ idx' = 1 /\ fld' = 1
    /\ pc' = "entry_points"
    /\ UNCHANGED <<input, def, keccak, tk, result>>
    /\ UNCHANGED callerVars /\ UNCHANGED chainVars /\ UNCHANGED restVars

\* let mut outer = HashChain::default(); outer.update(API_VERSION);
ApiVersion ==
    /\ pc = "api"
    /\ outer' = HashChain_update(HashChain_default, API_VERSION)
    /\ inner' = HashChain_default
    /\ kind' = 1 /\ idx' = 1 /\ fld' = 1
    /\ pc' = "entry_points"
    /\ UNCHANGED <<input, def, keccak, tk, result>>
    /\ UNCHANGED callerVars /\ UNCHANGED chainVars /\ UNCHANGED restVars

\* The item parsed without the check of its "0x" prefix.
EntryPoint_unchecked ==
    /\ pc = "entry_points"
    /\ idx <= Len(EntryList(def, KindOrder[kind]))
    /\ LET x == FieldOf(EntryList(def, KindOrder[kind])[idx], fld)
           r == from_hex_str(x)
       IN  IF ~r.ok
           THEN /\ result' = Failed("Failed to process contract_definition.entry_points_by_type",
                                    "Entry point invalid hex",
                                    EntryPointType[KindOrder[kind]], idx - 1, FieldNames[fld])
                /\ pc' = "done"
                /\ UNCHANGED <<inner, idx, fld>>
           ELSE /\ inner' = HashChain_update(inner, r.val)
                /\ idx' = IF fld = Len(FieldNames) THEN idx + 1 ELSE idx
                /\ fld' = IF fld = Len(FieldNames) THEN 1 ELSE fld + 1
                /\ UNCHANGED <<pc, result>>
    /\ UNCHANGED <<input, def, keccak, tk, outer, kind>>
    /\ UNCHANGED callerVars /\ UNCHANGED chainVars /\ UNCHANGED restVars

\* One item of the flattened (selector, offset, selector, offset, ...) of
\* the current kind: strip "0x", parse, update the kind's chain.
EntryPoint ==
    /\ pc = "entry_points"
    /\ idx <= Len(EntryList(def, KindOrder[kind]))
    /\ LET x == FieldOf(EntryList(def, KindOrder[kind])[idx], fld)
           r == from_hex_str(StripPrefix(x, "0x"))
           context == "Failed to process contract_definition.entry_points_by_type"
       IN  IF ~HasPrefix(x, "0x")
           THEN /\ result' = Failed(context, "Entry point missing '0x' prefix",
                                    EntryPointType[KindOrder[kind]], idx - 1, FieldNames[fld])
                /\ pc' = "done"
                /\ UNCHANGED <<inner, idx, fld>>
           ELSE IF ~r.ok
           THEN /\ result' = Failed(context, "Entry point invalid hex",
                                    EntryPointType[KindOrder[kind]], idx - 1, FieldNames[fld])
                /\ pc' = "done"
                /\ UNCHANGED <<inner, idx, fld>>
           ELSE /\ inner' = HashChain_update(inner, r.val)
                /\ idx' = IF fld = Len(FieldNames) THEN idx + 1 ELSE idx
                /\ fld' = IF fld = Len(FieldNames) THEN 1 ELSE fld + 1
                /\ UNCHANGED <<pc, result>>
    /\ UNCHANGED <<input, def, keccak, tk, outer, kind>>
    /\ UNCHANGED callerVars /\ UNCHANGED chainVars /\ UNCHANGED restVars

\* A kind without entries passed over: no update of the outer chain.
EntryPointsFinalize_skip_empty ==
    /\ pc = "entry_points"
    /\ idx > Len(EntryList(def, KindOrder[kind]))
    /\ outer' = IF inner.count = 0 THEN outer
                ELSE HashChain_update(outer, HashChain_finalize(inner))
    /\ inner' = HashChain_default
    /\ idx' = 1
    /\ IF kind < Len(KindOrder)
       THEN kind' = kind + 1 /\ UNCHANGED pc
       ELSE pc' = "builtins" /\ UNCHANGED kind
    /\ UNCHANGED <<input, def, keccak, tk, fld, result>>
    /\ UNCHANGED callerVars /\ UNCHANGED chainVars /\ UNCHANGED restVars

\* outer.update(x?.finalize()) for the kind whose list is exhausted.
EntryPointsFinalize ==
    /\ pc = "entry_points"
    /\ idx > Len(EntryList(def, KindOrder[kind]))
    /\ outer' = HashChain_update(outer, HashChain_finalize(inner))
    /\ inner' = HashChain_default
    /\ idx' = 1
    /\ IF kind < Len(KindOrder)
       THEN kind' = kind + 1 /\ UNCHANGED pc
       ELSE pc' = "builtins" /\ UNCHANGED kind
    /\ UNCHANGED <<input, def, keccak, tk, fld, result>>
    /\ UNCHANGED callerVars /\ UNCHANGED chainVars /\ UNCHANGED restVars

\* A builtin that is no StarkHash passed over.
Builtin_skipping ==
    /\ pc = "builtins"
    /\ idx <= Len(def.program.builtins)
    /\ LET r == from_be_slice(as_bytes(def.program.builtins[idx])) IN
       /\ inner' = IF r.ok THEN HashChain_update(inner, r.val) ELSE inner
       /\ idx' = idx + 1
       /\ UNCHANGED <<pc, result>>
    /\ UNCHANGED <<input, def, keccak, tk, outer, kind, fld>>
    /\ UNCHANGED callerVars /\ UNCHANGED chainVars /\ UNCHANGED restVars

\* One builtin: its bytes as a big-endian StarkHash into the builtins chain.
Builtin ==
    /\ pc = "builtins"
    /\ idx <= Len(def.program.builtins)
    /\ LET r == from_be_slice(as_bytes(def.program.builtins[idx])) IN
       IF r.ok
       THEN /\ inner' = HashChain_update(inner, r.val)
            /\ idx' = idx + 1
            /\ UNCHANGED <<pc, result>>
       ELSE /\ result' = Failed("Failed to process contract_definition.program.builtins",
                                "Invalid builtin", "", idx - 1, "")
            /\ pc' = "done"
            /\ UNCHANGED <<inner, idx>>
    /\ UNCHANGED <<input, def, keccak, tk, outer, kind, fld>>
    /\ UNCHANGED callerVars /\ UNCHANGED chainVars /\ UNCHANGED restVars

\* outer.update(builtins.finalize());
BuiltinsFinalize ==
    /\ pc = "builtins"
    /\ idx > Len(def.program.builtins)
    /\ outer' = HashChain_update(outer, HashChain_finalize(inner))
    /\ inner' = HashChain_default
    /\ pc' = "keccak"
    /\ UNCHANGED <<input, def, keccak, tk, kind, idx, fld, result>>
    /\ UNCHANGED callerVars /\ UNCHANGED chainVars /\ UNCHANGED restVars

\* outer.update(truncated_keccak);
TruncatedKeccak ==
    /\ pc = "keccak"
    /\ outer' = HashChain_update(outer, tk)
    /\ idx' = 1
    /\ pc' = "bytecodes"
    /\ UNCHANGED <<input, def, keccak, tk, inner, kind, fld, result>>
    /\ UNCHANGED callerVars /\ UNCHANGED chainVars /\ UNCHANGED restVars

\* An element that is no hex passed over instead of failing the call.
Bytecode_lenient ==
    /\ pc = "bytecodes"
    /\ idx <= Len(def.program.data)
    /\ LET r == from_hex_str(def.program.data[idx]) IN
       /\ inner' = IF r.ok THEN HashChain_update(inner, r.val) ELSE inner
       /\ idx' = idx + 1
       /\ UNCHANGED <<pc, result>>
    /\ UNCHANGED <<input, def, keccak, tk, outer, kind, fld>>
    /\ UNCHANGED callerVars /\ UNCHANGED chainVars /\ UNCHANGED restVars

\* One element of program.data: parse the hex, update the bytecode chain.
Bytecode ==
    /\ pc = "bytecodes"
    /\ idx <= Len(def.program.data)
    /\ LET r == from_hex_str(def.program.data[idx]) IN
       IF r.ok
       THEN /\ inner' = HashChain_update(inner, r.val)
            /\ idx' = idx + 1
            /\ UNCHANGED <<pc, result>>
       ELSE /\ result' = Failed("Failed to process contract_definition.program.data",
                                "Invalid bytecode", "", idx - 1, "")
            /\ pc' = "done"
            /\ UNCHANGED <<inner, idx>>
    /\ UNCHANGED <<input, def, keccak, tk, outer, kind, fld>>
    /\ UNCHANGED callerVars /\ UNCHANGED chainVars /\ UNCHANGED restVars

\* outer.update(bytecodes.finalize());
BytecodesFinalize ==
    /\ pc = "bytecodes"
    /\ idx > Len(def.program.data)
    /\ outer' = HashChain_update(outer, HashChain_finalize(inner))
    /\ inner' = HashChain_default
    /\ pc' = "finalize"
    /\ UNCHANGED <<input, def, keccak, tk, kind, idx, fld, result>>
    /\ UNCHANGED callerVars /\ UNCHANGED chainVars /\ UNCHANGED restVars

\* Ok(ContractHash(outer.finalize()))
Finish ==
    /\ pc = "finalize"
    /\ result' = OkHash(HashChain_finalize(outer))
    /\ pc' = "done"
    /\ UNCHANGED <<input, def, keccak, tk, outer, inner, kind, idx, fld>>
    /\ UNCHANGED callerVars /\ UNCHANGED chainVars /\ UNCHANGED restVars


(***************************************************************************)
(* The documents of the model                                              *)
(***************************************************************************)

\* Entries per entry-point kind, builtins and data elements of a document.
MaxEntries == 2
MaxBuiltins == 2
MaxData == 2

SeqsUpTo(S, n) == UNION {[1..m -> S] : m \in 0..n}

Reverse(l) == [i \in 1..Len(l) |-> l[Len(l) + 1 - i]]

\* How a document is written: the separators, and whether the members of
\* its objects stand in ascending or in descending key order.
PythonStyle == [sep |-> ", ", kv |-> ": ", rev |-> FALSE]
CompactReversedStyle == [sep |-> ",", kv |-> ":", rev |-> TRUE]
PythonReversedStyle == [sep |-> ", ", kv |-> ": ", rev |-> TRUE]

RenderObject(members, st) ==
    LET ms == IF st.rev THEN Reverse(members) ELSE members IN
    "{" \o Joined([i \in 1..Len(ms) |-> Quoted(ms[i][1]) \o st.kv \o ms[i][2]], st.sep, Len(ms)) \o "}"

RenderList(texts, st) == "[" \o Joined(texts, st.sep, Len(texts)) \o "]"

RenderEntry(e, st) ==
    RenderObject(<< <<"offset", Quoted(e.offset)>>, <<"selector", Quoted(e.selector)>> >>, st)

\* The kinds in ascending key order: CONSTRUCTOR, EXTERNAL, L1_HANDLER.
RenderEntryPoints(eps, st) ==
    RenderObject(
        SelectSeq([i \in 1..3 |->
                    LET k == <<Constructor, External, L1Handler>>[i] IN
                    IF eps[k].present
                    THEN <<EntryPointType[k],
                           RenderList([j \in 1..Len(eps[k].list) |-> RenderEntry(eps[k].list[j], st)], st)>>
                    ELSE <<"", "">>],
                  LAMBDA m : m[1] # ""), st)

RenderProgram(sh) ==
    RenderObject(
        (IF sh.attrs = "" THEN <<>> ELSE << <<"attributes", sh.attrs>> >>) \o
        << <<"builtins", RenderList([i \in 1..Len(sh.builtins) |-> Quoted(sh.builtins[i])], sh.style)>>,
           <<"data", RenderList([i \in 1..Len(sh.data) |-> Quoted(sh.data[i])], sh.style)>> >> \o
        (IF sh.dbg = "" THEN <<>> ELSE << <<"debug_info", sh.dbg>> >>) \o
        << <<"hints", sh.hints>>,
           <<"identifiers", sh.ids>>,
           <<"main_scope", Quoted("__main__")>>,
           <<"prime", Quoted("0x8")>>,
           <<"reference_manager", sh.refs>> >>, sh.style)

\* The bytes of the document of shape sh.  sh.top lists its top-level keys;
\* a key that is no field of the contract definition is written with value 1.
RenderDocument(sh) ==
    RenderObject(
        [i \in 1..Len(sh.top) |->
            <<sh.top[i],
              CASE sh.top[i] = "abi" -> sh.abi
                [] sh.top[i] = "entry_points_by_type" -> RenderEntryPoints(sh.eps, sh.style)
                [] sh.top[i] = "program" -> RenderProgram(sh)
                [] OTHER -> "1">>], sh.style)

Absent == [present |-> FALSE, list |-> <<>>]
Present(l) == [present |-> TRUE, list |-> l]
Entry(sel, off) == [selector |-> sel, offset |-> off]

\* Two valid entries, and one entry for each way a field can be faulty.
ValidEntries == {Entry("0x1", "0x2"), Entry("0x3a", "0x0")}
FaultyEntries ==
    {Entry("1", "0x2"), Entry("0x1", "2"), Entry("0xg", "0x2"), Entry("0x1", "0x0g")}

\* A short builtin, a 31-byte one, and two whose bytes do not fit the field.
BuiltinPool ==
    {"pedersen", "range_check_builtin_0123456789a",
     "range_check_builtin_0123456789ab", "range_check_builtin_0123456789abc"}

\* Bytecode words: with the prefix, without it, and two that are no hex.
DataPool == {"0x1", "0x2f", "2f", "0xg", "x1"}

FullTop == <<"abi", "entry_points_by_type", "program">>

BaseShape ==
    [eps |-> <<Present(<<Entry("0x1", "0x2")>>), Absent, Absent>>,
     builtins |-> <<"pedersen">>,
     data |-> <<"0x1">>,
     dbg |-> "null",
     attrs |-> "",
     hints |-> "{}",
     abi |-> "[]",
     ids |-> "{}",
     refs |-> "{}",
     top |-> FullTop,
     style |-> PythonStyle]

KindSlots == {Absent} \cup {Present(l) : l \in SeqsUpTo(ValidEntries \cup FaultyEntries, MaxEntries)}

\* One kind takes any list of entries, the other two have no key.
OneKindShapes ==
    {[BaseShape EXCEPT !.eps = [k \in 1..3 |-> IF k = kk THEN slot ELSE Absent]] :
        kk \in 1..3, slot \in KindSlots}

SmallSlots ==
    {Absent, Present(<<>>), Present(<<Entry("0x1", "0x2")>>), Present(<<Entry("0x3a", "0x0")>>),
     Present(<<Entry("1", "0x2")>>), Present(<<Entry("0x1", "0x0g")>>)}

\* Every kind takes a list of at most one entry.
AllKindsShapes ==
    {[BaseShape EXCEPT !.eps = <<a, b, c>>] : a \in SmallSlots, b \in SmallSlots, c \in SmallSlots}

BuiltinsShapes == {[BaseShape EXCEPT !.builtins = l] : l \in SeqsUpTo(BuiltinPool, MaxBuiltins)}

DataShapes == {[BaseShape EXCEPT !.data = l] : l \in SeqsUpTo(DataPool, MaxData)}

DebugInfos == {"", "null", "{\"long\": {\"tree\": [\"we dont\", 0]}}", "[1]"}
Attributes == {"", "[]", "[{\"name\": \"x\"}]"}
HintTexts == {"{}", "{\"9\": [], \"10\": [1]}", "{\"10\": [1], \"9\": []}"}

\* Documents that differ in debug_info, attributes, hints and style.
JsonShapes ==
    {[BaseShape EXCEPT !.dbg = d, !.attrs = a, !.hints = h, !.style = st] :
        d \in DebugInfos, a \in Attributes, h \in HintTexts,
        st \in {PythonStyle, CompactReversedStyle}}

\* Values with nested objects, each written in two orders of its keys.
AbiTexts ==
    {"[{\"b\": 1, \"a\": {\"d\": 2, \"c\": 3}}]", "[{\"a\": {\"c\": 3, \"d\": 2}, \"b\": 1}]"}
IdentifierTexts == {"{\"m.y\": {}, \"m.x\": {\"pc\": 0}}", "{\"m.x\": {\"pc\": 0}, \"m.y\": {}}"}
ReferenceTexts == {"{\"references\": [], \"a\": 7}", "{\"a\": 7, \"references\": []}"}

\* Documents that differ only in the order of the keys of their objects.
KeyOrderShapes ==
    {[BaseShape EXCEPT !.abi = a, !.ids = i, !.refs = r, !.style = st] :
        a \in AbiTexts, i \in IdentifierTexts, r \in ReferenceTexts,
        st \in {PythonStyle, PythonReversedStyle}}

\* Documents with faults in several of their lists at once.
MixedFaultShapes ==
    {[BaseShape EXCEPT !.eps = e, !.builtins = b, !.data = d] :
        e \in {BaseShape.eps,
                <<Present(<<Entry("0x1", "0x2")>>), Present(<<Entry("0x1", "0x0g")>>),
                  Present(<<Entry("1", "0x2")>>)>>},
        b \in {<<"pedersen">>, <<"pedersen", "range_check_builtin_0123456789abc">>},
        d \in {<<"0x1">>, <<"0x1", "x1">>}}

\* Documents the deserializer refuses: a field missing, an unknown field,
\* a field twice.
RefusedShapes ==
    {[BaseShape EXCEPT !.top = t] :
        t \in {<<"abi", "program">>, <<"entry_points_by_type", "program">>,
               <<"abi", "entry_points_by_type">>,
               <<"abi", "entry_points_by_type", "program", "version">>,
               <<"abi", "abi", "entry_points_by_type", "program">>}}

Shapes ==
    OneKindShapes \cup AllKindsShapes \cup BuiltinsShapes \cup DataShapes
        \cup JsonShapes \cup KeyOrderShapes \cup MixedFaultShapes \cup RefusedShapes


(***************************************************************************)
(* Specifications                                                          *)
(***************************************************************************)

NoCall == [input |-> "", result |-> NoResult, shape |-> BaseShape, keccak |-> ""]

\* The state at the call of compute_contract_hash on the document of shape sh.
Called(sh, src) ==
    /\ input = RenderDocument(sh)
    /\ mode = [src |-> src, shape |-> sh]
    /\ pc = "parse"
    /\ def = NoDefinition
    /\ keccak = ""
    /\ tk = ZERO
    /\ outer = HashChain_default
    /\ inner = HashChain_default
    /\ kind = 1 /\ idx = 1 /\ fld = 1
    /\ result = NoResult

ChainIdle == hc = HashChain_default /\ calls = <<>> /\ fin = NoHash

\* extract_abi_code_hash has serialized nothing.
ExtractIdle == abi = "" /\ code = ""

\* truncated_keccak has not been called.
NotTruncated == [done |-> FALSE, panic |-> FALSE, value |-> ZERO]
DigestIdle == digest = ZERO /\ truncated = NotTruncated

\* get_logs has not been called.
NoResponse == [kind |-> "none", code |-> "", message |-> "", filter |-> "none"]
NoLogs == [returned |-> FALSE, ok |-> FALSE, what |-> "none", from |-> NoResponse]
LogsIdle ==
    /\ filter = "none" /\ lpc = "idle" /\ response = NoResponse
    /\ queries = 0 /\ logs = NoLogs

RestIdle == ExtractIdle /\ DigestIdle /\ LogsIdle

\* One call of compute_contract_hash on any document of the model.
Init ==
    /\ \E sh \in Shapes : Called(sh, "document")
    /\ prev = NoCall
    /\ ChainIdle /\ RestIdle

\* compute_contract_hash0 on the deserialized definition.
compute_contract_hash0 ==
    \/ Serialize
    \/ ApiVersion
    \/ EntryPoint
    \/ EntryPointsFinalize
    \/ Builtin
    \/ BuiltinsFinalize
    \/ TruncatedKeccak
    \/ Bytecode
    \/ BytecodesFinalize
    \/ Finish

Compute == Parse \/ compute_contract_hash0

Next == Compute

Spec == Init /\ [][Next]_vars


(***************************************************************************)
(* A HashChain driven directly                                             *)
(***************************************************************************)

\* Updates of the directly driven chain.
MaxUpdates == 4

\* Values fed to the chain: field elements and pedersen outputs.
ChainValues == {ZERO, from_hex_str("0x2a").val, pedersen_hash(ZERO, ZERO)}

Idle ==
    /\ input = "" /\ mode = [src |-> "idle", shape |-> BaseShape]
    /\ pc = "idle" /\ def = NoDefinition /\ keccak = "" /\ tk = ZERO
    /\ outer = HashChain_default /\ inner = HashChain_default
    /\ kind = 1 /\ idx = 1 /\ fld = 1 /\ result = NoResult
    /\ prev = NoCall

InitChain == Idle /\ ChainIdle /\ RestIdle

\* hc.update(v)
ChainUpdate(v) ==
    /\ fin = NoHash
    /\ Len(calls) < MaxUpdates
    /\ hc' = HashChain_update(hc, v)
    /\ calls' = Append(calls, v)
    /\ UNCHANGED fin
    /\ UNCHANGED callVars /\ UNCHANGED callerVars /\ UNCHANGED restVars

\* hc.finalize(), which consumes the chain.
ChainFinalize ==
    /\ fin = NoHash
    /\ fin' = HashChain_finalize(hc)
    /\ UNCHANGED <<hc, calls>>
    /\ UNCHANGED callVars /\ UNCHANGED callerVars /\ UNCHANGED restVars

ChainFeed == \E v \in ChainValues : ChainUpdate(v)

NextChain == ChainFeed \/ ChainFinalize

SpecChain == InitChain /\ [][NextChain]_vars

(***************************************************************************)
(* A caller that hashes a second document                                  *)
(***************************************************************************)

\* What the caller keeps of the call that has returned.
Returned == [input |-> input, result |-> result, shape |-> mode.shape, keccak |-> keccak]

Recalled(text, src, sh) ==
    /\ input' = text
    /\ mode' = [src |-> src, shape |-> sh]
    /\ prev' = Returned
    /\ pc' = "parse"
    /\ def' = NoDefinition
    /\ keccak' = ""
    /\ tk' = ZERO
    /\ outer' = HashChain_default
    /\ inner' = HashChain_default
    /\ kind' = 1 /\ idx' = 1 /\ fld' = 1
    /\ result' = NoResult
    /\ UNCHANGED chainVars /\ UNCHANGED restVars

\* canonicalize(D) with D's entry_points_by_type member put back.
Reattach(canonical, eps) ==
    SubSeq(canonical, 1, Len(canonical) - 1) \o ", \"entry_points_by_type\": "
        \o RenderEntryPoints(eps, PythonStyle) \o "}"

\* The fields in which two shapes differ.
Differing(a, b) == {f \in DOMAIN a : a[f] # b[f]}

\* The caller hashes a variant of the document: one that differs from it
\* in one field of the shape.
CallOther ==
    /\ pc = "done" /\ mode.src = "document"
    /\ \E sh \in JsonShapes :
        /\ Cardinality(Differing(sh, mode.shape)) = 1
        /\ Recalled(RenderDocument(sh), "other", sh)

\* The caller hashes the canonical bytes of the document it has hashed.
CallCanonical ==
    /\ pc = "done" /\ mode.src = "document" /\ result.ok
    /\ Recalled(keccak, "canonical", mode.shape)

\* The caller hashes the canonical bytes with the entry points put back.
CallReattached ==
    /\ pc = "done" /\ mode.src = "document" /\ result.ok
    /\ Recalled(Reattach(keccak, mode.shape.eps), "reattached", mode.shape)

\* The sequence l in the order p of its indices.
Permuted(l, p) == [i \in 1..Len(l) |-> l[p[i]]]

\* The caller hashes the document with its builtins or its data reordered.
CallPermuted ==
    /\ pc = "done" /\ mode.src = "document"
    /\ \E f \in {"builtins", "data"} :
        \E p \in Permutations(1..Len(mode.shape[f])) :
            LET sh == [mode.shape EXCEPT ![f] = Permuted(mode.shape[f], p)] IN
            /\ sh # mode.shape
            /\ Recalled(RenderDocument(sh), "permuted", sh)

\* The caller hashes the document with the keys of its objects reordered.
CallReordered ==
    /\ pc = "done" /\ mode.src = "document" /\ mode.shape \in KeyOrderShapes
    /\ \E sh \in KeyOrderShapes \ {mode.shape} :
        Recalled(RenderDocument(sh), "reordered", sh)

\* The documents the caller starts from.
PairShapes == JsonShapes \cup BuiltinsShapes \cup DataShapes \cup KeyOrderShapes

InitPair ==
    /\ \E sh \in PairShapes : Called(sh, "document")
    /\ prev = NoCall
    /\ ChainIdle /\ RestIdle

NextPair ==
    Compute \/ CallOther \/ CallCanonical \/ CallReattached \/ CallPermuted \/ CallReordered

SpecPair == InitPair /\ [][NextPair]_vars


(***************************************************************************)
(* extract_abi_code_hash                                                   *)
(***************************************************************************)

\* The formatter of the keccak input used for the abi and program.data too.
ExtractFormatter_python == PythonDefaultFormatter

\* serde_json::to_vec: the compact formatter.
ExtractFormatter == CompactFormatter

\* extract_abi_code_hash up to its call of compute_contract_hash0:
\* deserialize the dump, serialize abi and program.data.
ExtractAbiCode ==
    /\ pc = "extract"
    /\ LET r == from_slice(input) IN
       IF r.ok
       THEN /\ def' = r.val
            /\ abi' = SerValue(r.val.abi, ExtractFormatter)
            /\ code' = SerVecStr(r.val.program.data, ExtractFormatter)
            /\ pc' = "serialize"
            /\ UNCHANGED result
       ELSE /\ result' = Failed("Failed to parse contract_definition", "", "", 0, "")
            /\ pc' = "done"
            /\ UNCHANGED <<def, abi, code>>
    /\ UNCHANGED <<input, keccak, tk, outer, inner, kind, idx, fld>>
    /\ UNCHANGED callerVars /\ UNCHANGED chainVars
    /\ UNCHANGED digestVars /\ UNCHANGED logVars

\* Documents whose abi has nested objects, and documents with any data.
ExtractShapes ==
    KeyOrderShapes \cup DataShapes \cup RefusedShapes
        \cup {[sh EXCEPT !.data = <<"0x1", "2f">>] : sh \in KeyOrderShapes}

InitExtract ==
    /\ \E sh \in ExtractShapes :
        /\ input = RenderDocument(sh)
        /\ mode = [src |-> "extract", shape |-> sh]
    /\ pc = "extract"
    /\ def = NoDefinition /\ keccak = "" /\ tk = ZERO
    /\ outer = HashChain_default /\ inner = HashChain_default
    /\ kind = 1 /\ idx = 1 /\ fld = 1 /\ result = NoResult
    /\ prev = NoCall
    /\ ChainIdle /\ RestIdle

NextExtract == ExtractAbiCode \/ compute_contract_hash0

SpecExtract == InitExtract /\ [][NextExtract]_vars

(***************************************************************************)
(* get_logs (ethereum/log.rs)                                              *)
(***************************************************************************)

\* Queries counted; from MaxQueries on the count stays.
MaxQueries == 3

DECODER_ERR == "Error(\"invalid type: null, expected a sequence\", line: 0, column: 0)"
ALCHEMY_UNKNOWN_BLOCK_ERR ==
    "One of the blocks specified in filter (fromBlock, toBlock or blockHash) cannot be found."
ALCHEMY_QUERY_TIMEOUT_ERR == "Query timeout exceeded. Consider reducing your block range."

Filters == {"block_hash", "earliest_to_latest", "beyond_latest"}

Answer(k, c, message) == [kind |-> k, code |-> c, message |-> message, filter |-> "none"]

\* What the transport may answer: logs, an RPC error with its code and
\* message, a decoder error with its text, any other web3 error.
Responses ==
    {Answer("Ok", "", ""),
     Answer("Rpc", "LimitExceeded", "query returned more than 10000 results"),
     Answer("Rpc", "InvalidParams", "Log response size exceeded. Use a smaller range."),
     Answer("Rpc", "InvalidParams", "invalid block range"),
     Answer("Rpc", "InvalidInput", ALCHEMY_UNKNOWN_BLOCK_ERR),
     Answer("Rpc", "InvalidInput", ALCHEMY_QUERY_TIMEOUT_ERR),
     Answer("Rpc", "InvalidInput", "execution reverted"),
     Answer("Decoder", "", DECODER_ERR),
     Answer("Decoder", "", "Error(\"invalid type: null, expected a map\", line: 0, column: 0)"),
     Answer("Transport", "", "connection reset")}

\* Every decoder error taken for the spurious one.
Retried_any_decoder(r) == r.kind = "Decoder"

\* Err(Decoder(err)) if err == DECODER_ERR
Retried(r) == r.kind = "Decoder" /\ r.message = DECODER_ERR

\* The arms of the match that return, in their order.
Outcome(r) ==
    CASE r.kind = "Ok" -> "Ok"
      [] r.kind = "Rpc" /\ r.code = "LimitExceeded" -> "QueryLimit"
      [] r.kind = "Rpc" /\ r.code = "InvalidParams"
            /\ HasPrefix(r.message, "Log response size exceeded") -> "QueryLimit"
      [] r.kind = "Rpc" /\ r.code = "InvalidInput"
            /\ r.message = ALCHEMY_UNKNOWN_BLOCK_ERR -> "UnknownBlock"
      [] r.kind = "Rpc" /\ r.code = "InvalidInput"
            /\ r.message = ALCHEMY_QUERY_TIMEOUT_ERR -> "QueryLimit"
      [] OTHER -> "Other"

InitLogs ==
    /\ Idle /\ ChainIdle /\ ExtractIdle /\ DigestIdle
    /\ filter \in Filters
    /\ lpc = "query" /\ response = NoResponse /\ queries = 0 /\ logs = NoLogs

\* transport.eth().logs(filter.clone()).await
EthLogs ==
    /\ lpc = "query"
    /\ \E r \in Responses : response' = [r EXCEPT !.filter = filter]
    /\ queries' = IF queries < MaxQueries THEN queries + 1 ELSE queries
    /\ lpc' = "match"
    /\ UNCHANGED <<filter, logs>>
    /\ UNCHANGED callVars /\ UNCHANGED callerVars /\ UNCHANGED chainVars
    /\ UNCHANGED extractVars /\ UNCHANGED digestVars

\* The match on the answer: continue on the spurious decoder error, return
\* on anything else.
Match ==
    /\ lpc = "match"
    /\ IF Retried(response)
       THEN lpc' = "query" /\ UNCHANGED logs
       ELSE /\ lpc' = "returned"
            /\ logs' = [returned |-> TRUE, ok |-> response.kind = "Ok",
                        what |-> Outcome(response), from |-> response]
    /\ UNCHANGED <<filter, response, queries>>
    /\ UNCHANGED callVars /\ UNCHANGED callerVars /\ UNCHANGED chainVars
    /\ UNCHANGED extractVars /\ UNCHANGED digestVars

NextLogs == EthLogs \/ Match

\* The future is polled and the transport answers: no step of the loop waits forever.
SpecLogs == InitLogs /\ [][NextLogs]_vars /\ WF_vars(EthLogs) /\ WF_vars(Match)

(***************************************************************************)
(* truncated_keccak on any digest                                          *)
(***************************************************************************)

\* Digests: every most significant byte, with low bytes all clear, all set
\* or mixed, so that masked values lie on both sides of 2^250 and of the
\* field modulus before the mask.
Digests ==
    {[i \in 1..FeltLen |-> IF i = 1 THEN top ELSE IF i = FeltLen THEN low ELSE fill] :
        top \in 0..255, fill \in {0, 90, 255}, low \in {0, 1, 255}}

InitTruncate ==
    /\ Idle /\ ChainIdle /\ ExtractIdle /\ LogsIdle
    /\ digest \in Digests
    /\ truncated = NotTruncated

\* truncated_keccak(digest): the expect panics when from_be_bytes refuses.
Truncate ==
    /\ ~truncated.done
    /\ truncated' =
            IF from_be_bytes(MaskTop(digest)).ok
            THEN [done |-> TRUE, panic |-> FALSE, value |-> truncated_keccak(digest)]
            ELSE [done |-> TRUE, panic |-> TRUE, value |-> ZERO]
    /\ UNCHANGED digest
    /\ UNCHANGED callVars /\ UNCHANGED callerVars /\ UNCHANGED chainVars
    /\ UNCHANGED extractVars /\ UNCHANGED logVars

NextTruncate == Truncate

SpecTruncate == InitTruncate /\ [][NextTruncate]_vars

(***************************************************************************)
(* What the claims speak of                                                *)
(***************************************************************************)

\* The field element of the integer n < 256.
FeltOf(n) == [i \in 1..FeltLen |-> IF i = FeltLen THEN n ELSE 0]

\* pedersen(...pedersen(pedersen(0, l[1]), l[2])..., l[n])
RECURSIVE Folded(_, _)
Folded(l, n) == IF n = 0 THEN ZERO ELSE pedersen_hash(Folded(l, n - 1), l[n])

\* The finalized chain of the values l.
ChainOf(l) == pedersen_hash(Folded(l, Len(l)), FeltOf(Len(l)))

\* The values a chain accumulator was updated with, first to last.
RECURSIVE Updates(_)
Updates(h) == IF IsPedersen(h) THEN Append(Updates(h[1]), h[2]) ELSE <<>>

\* The call got past deserialization.
Parsed == pc \notin {"idle", "parse"} /\ result.err.context # "Failed to parse contract_definition"

Returns == pc = "done"

\* selector_0, offset_0, selector_1, offset_1, ... of kind k as field elements.
EntryValues(k) ==
    [j \in 1..2 * Len(EntryList(def, k)) |->
        LET e == EntryList(def, k)[(j + 1) \div 2] IN
        from_hex_str(StripPrefix(IF j % 2 = 1 THEN e.selector ELSE e.offset, "0x")).val]

BuiltinValues ==
    [i \in 1..Len(def.program.builtins) |-> from_be_slice(as_bytes(def.program.builtins[i])).val]

DataValues ==
    [i \in 1..Len(def.program.data) |-> from_hex_str(def.program.data[i]).val]

\* The i-th update the outer chain is to receive.
ExpectedOuter(i) ==
    CASE i = 1 -> FeltOf(0)
      [] i = 2 -> ChainOf(EntryValues(External))
      [] i = 3 -> ChainOf(EntryValues(L1Handler))
      [] i = 4 -> ChainOf(EntryValues(Constructor))
      [] i = 5 -> ChainOf(BuiltinValues)
      [] i = 6 -> truncated_keccak(Keccak256(keccak))
      [] i = 7 -> ChainOf(DataValues)

\* Field f of entry i of kind k is faulty: no "0x" prefix, or no hex after it.
FaultyPrefix(k, i, f) == ~HasPrefix(FieldOf(EntryList(def, k)[i], f), "0x")
FaultyHex(k, i, f) ==
    /\ ~FaultyPrefix(k, i, f)
    /\ ~from_hex_str(StripPrefix(FieldOf(EntryList(def, k)[i], f), "0x")).ok

FaultyEntryFields ==
    {x \in UNION {{k} \X (1..Len(EntryList(def, k))) \X (1..2) : k \in 1..3} :
        FaultyPrefix(x[1], x[2], x[3]) \/ FaultyHex(x[1], x[2], x[3])}

FaultyBuiltins ==
    {i \in 1..Len(def.program.builtins) : ~from_be_slice(as_bytes(def.program.builtins[i])).ok}

\* C1: at every moment the outer chain has received a prefix of: API version
\* 0, the External chain, the L1Handler chain, the Constructor chain, the
\* builtins chain, the truncated keccak, the bytecode chain; a successful
\* call has applied exactly these seven and returns the finalize of that chain.
C1_OuterOrder ==
    LET ups == Updates(outer.hash) IN
    /\ Len(ups) <= 7
    /\ \A i \in 1..Len(ups) : ups[i] = ExpectedOuter(i)
    /\ (Returns /\ result.ok) =>
            /\ Len(ups) = 7
            /\ result.hash = pedersen_hash(outer.hash, FeltOf(Len(ups)))

C1_Witness ==
    /\ Returns /\ result.ok
    /\ Len(EntryList(def, External)) >= 1
    /\ Len(EntryList(def, L1Handler)) >= 1
    /\ EntryList(def, L1Handler) # EntryList(def, Constructor)

\* C2 as claimed: the outer count at finalize is 5 and the hash is
\* pedersen(outer.accumulator, 5).
C2_Original ==
    (Returns /\ result.ok) =>
        outer.count = 5 /\ result.hash = pedersen_hash(outer.hash, FeltOf(5))

\* C2 amended: the outer count at finalize is 7 and the hash is
\* pedersen(outer.accumulator, 7).
C2_CountSeven ==
    (Returns /\ result.ok) =>
        outer.count = 7 /\ result.hash = pedersen_hash(outer.hash, FeltOf(7))

C2_Witness == Returns /\ result.ok /\ outer.count = 7

\* C3: a chain made by default() and updated with v1..vn holds the
\* accumulator pedersen(...pedersen(0, v1)..., vn) and the count n; finalize
\* returns pedersen(accumulator, count), pedersen(0, 0) for no update.
C3_ChainState ==
    /\ hc.count = Len(calls)
    /\ hc.hash = Folded(calls, Len(calls))
    /\ fin # NoHash => fin = pedersen_hash(hc.hash, FeltOf(hc.count))
    /\ (fin # NoHash /\ calls = <<>>) => fin = pedersen_hash(FeltOf(0), FeltOf(0))

C3_Witness == Len(calls) = 3 /\ calls[1] # calls[2] /\ fin # NoHash

\* C4: while the entries of a kind are folded the inner chain has received
\* selector_0, offset_0, ..., in that order, one update per field; once the
\* kind is done the outer chain has received pedersen(accumulator, 2n).
C4_EntryChain ==
    /\ pc = "entry_points" =>
            /\ inner.count = 2 * (idx - 1) + (fld - 1)
            /\ Updates(inner.hash) = SubSeq(EntryValues(kind), 1, inner.count)
    /\ \A k \in 1..3 :
            Len(Updates(outer.hash)) >= k + 1 =>
                Updates(outer.hash)[k + 1] =
                    pedersen_hash(Folded(EntryValues(k), 2 * Len(EntryList(def, k))),
                                  FeltOf(2 * Len(EntryList(def, k))))

C4_Witness ==
    \E k \in 1..3 :
        /\ Parsed
        /\ Len(EntryList(def, k)) = 2
        /\ EntryList(def, k)[1] # EntryList(def, k)[2]
        /\ Len(Updates(outer.hash)) >= k + 1

\* C5: a kind with no key or with an empty list still gives the outer chain
\* one update, pedersen(0, 0); every successful call has updated the outer
\* chain seven times.
C5_EmptyKinds ==
    (Returns /\ result.ok) =>
        /\ Len(Updates(outer.hash)) = 7
        /\ \A k \in 1..3 :
                (~def.entry_points_by_type[k].present \/ def.entry_points_by_type[k].list = <<>>)
                    => Updates(outer.hash)[k + 1] = pedersen_hash(FeltOf(0), FeltOf(0))

C5_Witness ==
    /\ Returns /\ result.ok
    /\ \E a, b, c \in 1..3 :
        /\ ~def.entry_points_by_type[a].present
        /\ def.entry_points_by_type[b].present /\ def.entry_points_by_type[b].list = <<>>
        /\ Len(EntryList(def, c)) >= 1

\* C6: a selector or offset without "0x", or with no hex after it, makes the
\* call return an error naming the kind, index and field of such an entry
\* field, and no hash.
C6_EntryPointError ==
    (Returns /\ Parsed /\ FaultyEntryFields # {}) =>
        /\ ~result.ok
        /\ result.hash = NoHash
        /\ result.err.context = "Failed to process contract_definition.entry_points_by_type"
        /\ \E x \in FaultyEntryFields :
            /\ result.err.key = EntryPointType[x[1]]
            /\ result.err.index = x[2] - 1
            /\ result.err.field = FieldNames[x[3]]
            /\ result.err.what = IF FaultyPrefix(x[1], x[2], x[3])
                                 THEN "Entry point missing '0x' prefix"
                                 ELSE "Entry point invalid hex"

C6_Witness ==
    /\ Returns /\ Parsed
    /\ FaultyEntryFields # {}
    /\ result.err.what = "Entry point invalid hex"
    /\ result.err.field = "offset"
    /\ result.err.index = 1

\* C7 as claimed: a program.data element without "0x" makes the call return
\* an error naming the bytecode list and the index of a faulty element.
C7_Original ==
    (/\ Returns /\ Parsed /\ FaultyEntryFields = {} /\ FaultyBuiltins = {}
     /\ \E i \in 1..Len(def.program.data) : ~HasPrefix(def.program.data[i], "0x")) =>
        /\ ~result.ok
        /\ result.hash = NoHash
        /\ result.err.context = "Failed to process contract_definition.program.data"
        /\ \E i \in 1..Len(def.program.data) :
            /\ ~HasPrefix(def.program.data[i], "0x") \/ ~from_hex_str(def.program.data[i]).ok
            /\ result.err.index = i - 1

\* C7 amended: program.data elements need no "0x"; with valid entry points
\* and builtins the call fails exactly when some element is no hex for a
\* field element, with an error naming the bytecode list and the index of
\* the first such element, and no hash.
C7_BytecodeError ==
    (Returns /\ Parsed /\ FaultyEntryFields = {} /\ FaultyBuiltins = {}) =>
        LET bad == {i \in 1..Len(def.program.data) : ~from_hex_str(def.program.data[i]).ok} IN
        IF bad = {} THEN result.ok
        ELSE /\ ~result.ok
             /\ result.hash = NoHash
             /\ result.err.context = "Failed to process contract_definition.program.data"
             /\ result.err.what = "Invalid bytecode"
             /\ result.err.index + 1 \in bad
             /\ \A i \in bad : result.err.index + 1 <= i

C7_Witness ==
    /\ Returns /\ ~result.ok
    /\ result.err.what = "Invalid bytecode"
    /\ result.err.index = 1
    /\ ~HasPrefix(def.program.data[1], "0x")


\* The text s holds the text sub.
Contains(s, sub) ==
    \E i \in 1..(Len(s) - Len(sub) + 1) : SubSeq(s, i, i + Len(sub) - 1) = sub

\* The call has its canonical serialization.
Serialized == Parsed /\ pc # "serialize"

\* The second call's document differs from the first one's in the field f only.
DiffersOnlyIn(f) ==
    /\ mode.src = "other"
    /\ Differing(prev.shape, mode.shape) = {f}

\* C8 as claimed: hashing the canonical serialization of a hashed document
\* succeeds and gives the document's hash.
C8_Original ==
    (mode.src = "canonical" /\ Returns) =>
        result.ok /\ result.hash = prev.result.hash

\* C8 amended: the canonical serialization leaves entry_points_by_type out,
\* so hashing it fails in deserialization and returns no hash; with the
\* document's entry_points_by_type member put back the call succeeds, gives
\* the document's hash and serializes to the same canonical bytes.
C8_Reattached ==
    /\ (mode.src = "canonical" /\ Returns) =>
            /\ ~result.ok
            /\ result.hash = NoHash
            /\ result.err.context = "Failed to parse contract_definition"
    /\ (mode.src = "reattached" /\ Serialized) => keccak = prev.keccak
    /\ (mode.src = "reattached" /\ Returns) =>
            /\ result.ok
            /\ prev.result.ok
            /\ result.hash = prev.result.hash

C8_Witness ==
    /\ mode.src = "reattached" /\ Returns /\ result.ok
    /\ prev.shape.style = CompactReversedStyle
    /\ prev.shape.dbg \notin {"", "null"}
    /\ prev.shape.hints # "{}"
    /\ prev.input # input

\* C9: two documents that differ only in debug_info (absent, null or a
\* subtree) get the same hash; debug_info is null from serialization on and
\* the canonical bytes of the two are the same.
C9_DebugInfoIgnored ==
    /\ Serialized => def.program.debug_info = ""
    /\ (DiffersOnlyIn("dbg") /\ Serialized) => keccak = prev.keccak
    /\ (DiffersOnlyIn("dbg") /\ Returns) =>
            /\ result.ok
            /\ prev.result.ok
            /\ result.hash = prev.result.hash

C9_Witness ==
    /\ DiffersOnlyIn("dbg") /\ Returns /\ result.ok
    /\ prev.shape.dbg = ""
    /\ mode.shape.dbg \notin {"", "null"}

\* C10: a document without attributes and the same document with
\* "attributes": [] get the same hash; both parse to the empty sequence, and
\* the canonical bytes hold the attributes member exactly when the sequence
\* is not empty.
C10_EmptyAttributes ==
    /\ (Parsed /\ mode.src \in {"document", "other"}) =>
            (def.program.attributes = <<>> <=> mode.shape.attrs \in {"", "[]"})
    /\ Serialized =>
            (Contains(keccak, "\"attributes\"") <=> def.program.attributes # <<>>)
    /\ (/\ DiffersOnlyIn("attrs") /\ Returns
        /\ {prev.shape.attrs, mode.shape.attrs} = {"", "[]"}) =>
            /\ result.ok
            /\ prev.result.ok
            /\ result.hash = prev.result.hash

C10_Witness ==
    /\ DiffersOnlyIn("attrs") /\ Returns /\ result.ok
    /\ prev.shape.attrs = ""
    /\ mode.shape.attrs = "[]"
    /\ ~Contains(keccak, "\"attributes\"")


\* The second call's document is the first one's with the sequence f reordered.
PermutedIn(f) ==
    /\ mode.src = "permuted"
    /\ Differing(prev.shape, mode.shape) = {f}

\* The updates of the outer chain behind the hash a call returned.
OuterUpdates(r) == Updates(r.hash[1])

\* C11: hints are serialized with their keys in ascending numeric order (9
\* before 10) whatever their order in the input, and two documents that
\* differ only in the order of the hints keys get the same hash; a document
\* and the one with its builtins or its data reordered get different hashes,
\* and the chain of the reordered list differs whenever the reordering
\* changes the field elements folded.
C11_HintsSortedListsOrdered ==
    /\ (/\ Serialized /\ mode.src \in {"document", "other"}
        /\ mode.shape.hints \in {"{\"9\": [], \"10\": [1]}", "{\"10\": [1], \"9\": []}"}) =>
            Contains(keccak, "\"hints\": {\"9\": [], \"10\": [1]}")
    /\ (/\ DiffersOnlyIn("hints") /\ Returns
        /\ {prev.shape.hints, mode.shape.hints} =
                {"{\"9\": [], \"10\": [1]}", "{\"10\": [1], \"9\": []}"}) =>
            /\ result.ok
            /\ prev.result.ok
            /\ result.hash = prev.result.hash
    /\ (mode.src = "permuted" /\ Returns /\ prev.result.ok) =>
            /\ result.ok
            /\ result.hash # prev.result.hash
    /\ (PermutedIn("builtins") /\ Returns /\ prev.result.ok) =>
            /\ OuterUpdates(result)[5] # OuterUpdates(prev.result)[5]
            /\ OuterUpdates(result)[7] = OuterUpdates(prev.result)[7]
    /\ (PermutedIn("data") /\ Returns /\ prev.result.ok) =>
            /\ OuterUpdates(result)[5] = OuterUpdates(prev.result)[5]
            /\ (OuterUpdates(result)[7] # OuterUpdates(prev.result)[7]
                    <=> \E i \in 1..Len(mode.shape.data) :
                            from_hex_str(mode.shape.data[i]).val
                                # from_hex_str(prev.shape.data[i]).val)

C11_Witness ==
    /\ DiffersOnlyIn("hints") /\ Returns /\ result.ok
    /\ prev.shape.hints = "{\"9\": [], \"10\": [1]}"
    /\ mode.shape.hints = "{\"10\": [1], \"9\": []}"


\* C12: a document and the same document with the keys of its objects
\* reordered (top level, program, entry points, abi, identifiers,
\* reference_manager, nested objects) get the same canonical bytes and the
\* same hash; the canonical bytes hold every object with its keys ascending.
C12_KeyOrderIgnored ==
    /\ (Serialized /\ mode.shape \in KeyOrderShapes) =>
            /\ HasPrefix(keccak, "{\"abi\": [{\"a\": {\"c\": 3, \"d\": 2}, \"b\": 1}], \"program\": {\"builtins\": ")
            /\ Contains(keccak, ", \"identifiers\": {\"m.x\": {\"pc\": 0}, \"m.y\": {}}, \"main_scope\": ")
            /\ Contains(keccak, ", \"reference_manager\": {\"a\": 7, \"references\": []}}")
    /\ (mode.src = "reordered" /\ Serialized) => keccak = prev.keccak
    /\ (mode.src = "reordered" /\ Returns) =>
            /\ result.ok
            /\ prev.result.ok
            /\ result.hash = prev.result.hash

C12_Witness ==
    /\ mode.src = "reordered" /\ Returns /\ result.ok
    /\ Differing(prev.shape, mode.shape) = {"abi", "ids", "refs", "style"}
    /\ prev.shape.style = PythonStyle


\* 2^250 as 32 big-endian bytes.
TwoPow250 == [i \in 1..FeltLen |-> IF i = 1 THEN 4 ELSE 0]

\* C13: truncated_keccak(d) never panics; its most significant byte is d's
\* with the top six bits cleared and the other 31 bytes are d's, so the
\* value is d mod 2^250, below 2^250 and below the field modulus.
C13_Truncated ==
    truncated.done =>
        /\ ~truncated.panic
        /\ truncated.value[1] < 4
        /\ \E q \in 0..63 : digest[1] = 4 * q + truncated.value[1]
        /\ \A i \in 2..FeltLen : truncated.value[i] = digest[i]
        /\ BytesLess(truncated.value, TwoPow250)
        /\ BytesLess(truncated.value, Modulus)

C13_Witness ==
    /\ truncated.done
    /\ digest[1] = 255 /\ digest[2] = 255
    /\ truncated.value[1] = 3


\* extract_abi_code_hash has returned its triple.
Extracted == mode.src = "extract" /\ Returns /\ result.ok

\* C14 as claimed: the abi and code bytes returned are what the formatter of
\* the keccak input writes: they stand in the keccak input as its abi and
\* its program.data members.
C14_Original ==
    Extracted =>
        /\ HasPrefix(keccak, "{\"abi\": " \o abi \o ", \"program\": ")
        /\ Contains(keccak, ", \"data\": " \o code \o ", \"debug_info\": ")

\* C14 amended: the abi and code bytes returned are the compact
\* serialization of the abi value and of program.data ("," between elements
\* and entries, ":" between key and value, no space), objects with their
\* keys sorted, program.data in its declared order.
C14_Compact ==
    Extracted =>
        /\ mode.shape.abi \in AbiTexts => abi = "[{\"a\":{\"c\":3,\"d\":2},\"b\":1}]"
        /\ mode.shape.abi = "[]" => abi = "[]"
        /\ code = RenderList([i \in 1..Len(mode.shape.data) |-> Quoted(mode.shape.data[i])],
                             CompactReversedStyle)
        /\ ~Contains(abi, " ") /\ ~Contains(code, " ")

C14_Witness ==
    /\ Extracted
    /\ mode.shape.abi = "[{\"b\": 1, \"a\": {\"d\": 2, \"c\": 3}}]"
    /\ Len(mode.shape.data) = 2


\* The answer is the spurious decoder error.
Spurious(r) ==
    /\ r.kind = "Decoder"
    /\ r.message = "Error(\"invalid type: null, expected a sequence\", line: 0, column: 0)"

\* C15: get_logs sends the same filter again exactly when the answer is the
\* spurious decoder error; on any other answer it returns, on that answer;
\* it never returns the spurious error; an answer that is not spurious
\* leads to the return, and while every answer is spurious it does not
\* return.
C15_RetryOnlySpurious ==
    /\ [](logs.returned => (logs.from = response /\ ~Spurious(logs.from)))
    /\ [](response.filter \in {"none", filter})
    /\ [][lpc = "match" =>
            IF Spurious(response)
            THEN lpc' = "query" /\ ~logs'.returned /\ filter' = filter
            ELSE lpc' = "returned" /\ logs'.returned /\ logs'.from = response]_vars
    /\ [][lpc = "returned" => UNCHANGED logVars]_vars
    /\ ((lpc = "match" /\ ~Spurious(response)) ~> logs.returned)
    /\ ([](lpc = "match" => Spurious(response)) => [](~logs.returned))

C15_Witness ==
    /\ logs.returned
    /\ queries = MaxQueries
    /\ logs.what = "QueryLimit"
    /\ logs.from.code = "InvalidInput"


FaultyData == {i \in 1..Len(def.program.data) : ~from_hex_str(def.program.data[i]).ok}

\* The entry field x comes before y: by kind, then index, then field.
EntryBefore(x, y) ==
    \/ x[1] < y[1]
    \/ x[1] = y[1] /\ x[2] < y[2]
    \/ x[1] = y[1] /\ x[2] = y[2] /\ x[3] < y[3]

\* The call stopped with this error, after `done` updates of the outer
\* chain and `items` updates of the chain of the list at fault, and
\* returned no hash.
StoppedAt(err, done, items) ==
    /\ ~result.ok
    /\ result.hash = NoHash
    /\ result.err = err
    /\ Len(Updates(outer.hash)) = done
    /\ inner.count = items

\* C16: a call on a parsed document with faulty elements reports the first
\* of them in the order External, L1Handler, Constructor (by index, selector
\* before offset), then builtins by index, then program.data by index; the
\* chains hold what came before it and nothing after; no hash is returned.
C16_FirstFault ==
    (Returns /\ Parsed) =>
        IF FaultyEntryFields # {}
        THEN \E x \in FaultyEntryFields :
                /\ \A y \in FaultyEntryFields : x = y \/ EntryBefore(x, y)
                /\ StoppedAt([context |-> "Failed to process contract_definition.entry_points_by_type",
                              what |-> IF FaultyPrefix(x[1], x[2], x[3])
                                       THEN "Entry point missing '0x' prefix"
                                       ELSE "Entry point invalid hex",
                              key |-> <<"EXTERNAL", "L1_HANDLER", "CONSTRUCTOR">>[x[1]],
                              index |-> x[2] - 1,
                              field |-> <<"selector", "offset">>[x[3]]],
                             x[1], 2 * (x[2] - 1) + (x[3] - 1))
        ELSE IF FaultyBuiltins # {}
        THEN \E i \in FaultyBuiltins :
                /\ \A j \in FaultyBuiltins : i <= j
                /\ StoppedAt([context |-> "Failed to process contract_definition.program.builtins",
                              what |-> "Invalid builtin", key |-> "", index |-> i - 1,
                              field |-> ""], 4, i - 1)
        ELSE IF FaultyData # {}
        THEN \E i \in FaultyData :
                /\ \A j \in FaultyData : i <= j
                /\ StoppedAt([context |-> "Failed to process contract_definition.program.data",
                              what |-> "Invalid bytecode", key |-> "", index |-> i - 1,
                              field |-> ""], 6, i - 1)
        ELSE result.ok /\ result.hash # NoHash

C16_Witness ==
    /\ Returns /\ Parsed
    /\ Cardinality(FaultyEntryFields) = 2
    /\ FaultyBuiltins # {}
    /\ FaultyData # {}
    /\ result.err.key = "L1_HANDLER"


====
